---- MODULE Spec2Model ----
(***************************************************************************)
(* State-machine model of the misinformation diffusion engine:             *)
(*   src/agent.py  UserAgent, CountermeasureAgent                          *)
(*   src/model.py  MisinformationModel                                     *)
(*                                                                         *)
(* random.random() < p is modelled by a Boolean input `draw`: every        *)
(* probability the agents compare against lies strictly between 0 and 1,   *)
(* so both outcomes of each comparison are possible.                       *)
(*                                                                         *)
(* MisinformationModel.user_retweet, record_retraction and                 *)
(* deploy_countermeasure are called by src/agent.py but defined nowhere in *)
(* src/; they are modelled from the specification (aggregate counters).    *)
(* The tick counter read as self.num_steps is likewise never assigned in   *)
(* src/ and follows the specification (starts at 0, +1 per call of step).  *)
(***************************************************************************)
EXTENDS Integers, Sequences, FiniteSets

\* ------------------------------------------------------------------ bounds
Users == {"u1", "u2"}
Mids == {"m1", "m2"}
\* engine ticks explored: step is called while num_steps < MaxTick
MaxTick == 2
\* share notifications (calls of model.user_retweet) explored in a run
MaxNotes == 2
\* activate_countermeasure calls explored per (controller, misinfo_id)
MaxActivations == 2
\* fact_check delays explored: 0..MaxDelay
MaxDelay == 2
\* records in tweets_timeline
MaxTweets == 3
\* countermeasure controllers enabled together in the settings
MaxControllers == 1
\* share count of one item up to which misinformation deliveries are explored
\* in the runs without countermeasures
MaxShares == 3
\* records in users_data
MaxUserRecords == 2
\* pairs in network_edges
MaxEdges == 1

\* ------------------------------------------------------- program constants
\* self.time_unit = 60  (1 step = 60 seconds)
time_unit == 60
\* getattr(self.model, "step_count", 0): MisinformationModel never defines
\* step_count, so the controller's per-tick advance always reads the default
step_count == 0

CmTypes == {"key_node", "fact_check", "early_warning"}
\* time_since_start values (seconds) of the timeline records explored
Times == {0, 30, 60, 130}
\* a user record without identity: user_data.get('user_id') is falsy
NoId == ""
\* followers_count values of the user records explored
FollowerCounts == {10, 2000000}
\* a countermeasure type that is none of the three the code names
UnknownTypes == {"other"}

VARIABLES
  num_steps,                \* MisinformationModel.num_steps (current tick)
  scheduled_tweets,         \* MisinformationModel.scheduled_tweets
  sched_ids,                \* ghost: identity of each element of scheduled_tweets
  dispatched,               \* ghost: record identity -> the process_tweet calls <<tick, entry>>
  step_ticks,               \* ghost: the current_step read by each call of step, in order
  tick_trace,               \* ghost: the calls made by the latest call of step, in order
  dispatch_log,             \* ghost: every process_tweet call of the run, in order
  received_misinfo,         \* UserAgent.received_misinfo, per user
  retweeted_misinfo,        \* UserAgent.retweeted_misinfo, per user
  received_countermeasures, \* UserAgent.received_countermeasures, per user
  misinfo_stats,            \* MisinformationModel.misinfo_stats: mid -> retweet_count
  share_notes,              \* ghost: calls of model.user_retweet per (user, mid)
  retraction_notes,         \* ghost: calls of model.record_retraction per (user, mid)
  settings,                 \* countermeasure_settings: enabled types, fact_check delay and threshold
  pending_countermeasures,  \* CountermeasureAgent.pending_countermeasures, per controller
  active_countermeasures,   \* CountermeasureAgent.active_countermeasures, per controller
  deployed,                 \* ghost: calls of model.deploy_countermeasure per (controller, mid)
  active_writes,            \* ghost: assignments of active_countermeasures[mid] per (controller, mid)
  triggers,                 \* ghost: last tick passed to activate_countermeasure per (controller, mid)
  preprocessed_data,        \* the input: users, network_edges, tweets_timeline
  countermeasure_flags,     \* the types whose <type>_enabled key is set in countermeasure_settings
  G,                        \* MisinformationModel.G: nodes and directed edges
  user_agents,              \* the UserAgent objects added to the model, by user id, in order
  constructed,              \* types of the CountermeasureAgent objects constructed by a caller
  status,                   \* outcome of MisinformationModel.__init__: "ok" or "error"
  draws,                    \* ghost: self.random.random() calls made by the latest operation
  lastOp                    \* ghost: the operation that produced this state

userVars == <<received_misinfo, retweeted_misinfo, received_countermeasures,
              misinfo_stats, share_notes, retraction_notes>>
cmVars == <<pending_countermeasures, active_countermeasures, deployed,
            active_writes, triggers>>
schedVars == <<scheduled_tweets, sched_ids, dispatched, step_ticks, tick_trace,
               dispatch_log>>
setupVars == <<preprocessed_data, countermeasure_flags, G, user_agents, status>>
vars == <<num_steps, schedVars, userVars, settings, cmVars, setupVars, constructed,
          draws, lastOp>>

\* ------------------------------------------------------------ map helpers
EmptyMap == [k \in {} |-> 0]
Put(f, k, v) == [x \in (DOMAIN f) \cup {k} |-> IF x = k THEN v ELSE f[x]]
Del(f, k) == [x \in (DOMAIN f) \ {k} |-> f[x]]

\* -------------------------------------------------------------- UserAgent
\* A user's mutable sets, the notifications a call sends to the model, and
\* the number of self.random.random() calls it makes.
UserState(recv, rt, cms, shared, retracted) ==
  [received_misinfo |-> recv, retweeted_misinfo |-> rt,
   received_countermeasures |-> cms, shared |-> shared, retracted |-> retracted,
   draws |-> 0]

\* variant: the random number is drawn before the "already retweeted" test
consider_retweeting_draw_first(user, misinfo_id, draw) ==
  LET drawn == [user EXCEPT !.draws = @ + 1]
  IN IF misinfo_id \in user.retweeted_misinfo
       THEN drawn
       ELSE IF draw
         THEN [drawn EXCEPT !.retweeted_misinfo = @ \cup {misinfo_id},
                            !.shared = TRUE]
         ELSE drawn

\* variant: the "already retweeted" early return is missing
consider_retweeting_no_guard(user, misinfo_id, draw) ==
  IF draw
    THEN [user EXCEPT !.retweeted_misinfo = @ \cup {misinfo_id}, !.shared = TRUE]
    ELSE user

\* UserAgent._consider_retweeting: draw stands for random() < rt_prob
_consider_retweeting(user, misinfo_id, draw) ==
  IF misinfo_id \in user.retweeted_misinfo
    THEN user
    ELSE LET drawn == [user EXCEPT !.draws = @ + 1]
         IN IF draw
              THEN [drawn EXCEPT !.retweeted_misinfo = @ \cup {misinfo_id},
                                 !.shared = TRUE]
              ELSE drawn

\* variant: a misinformation delivery does not record the id as received
receive_tweet_unrecorded(user, misinfo_id, is_countermeasure, draw) ==
  IF is_countermeasure
    THEN LET u1 == [user EXCEPT !.received_countermeasures = @ \cup {misinfo_id}]
         IN IF misinfo_id \in u1.retweeted_misinfo /\ draw
              THEN [u1 EXCEPT !.retweeted_misinfo = @ \ {misinfo_id},
                              !.retracted = TRUE]
              ELSE u1
    ELSE _consider_retweeting(user, misinfo_id, draw)

\* variant: a retraction clears the whole shared set
receive_tweet_clear(user, misinfo_id, is_countermeasure, draw) ==
  IF is_countermeasure
    THEN LET u1 == [user EXCEPT !.received_countermeasures = @ \cup {misinfo_id}]
         IN IF misinfo_id \in u1.retweeted_misinfo /\ draw
              THEN [u1 EXCEPT !.retweeted_misinfo = {}, !.retracted = TRUE]
              ELSE u1
    ELSE _consider_retweeting(
           [user EXCEPT !.received_misinfo = @ \cup {misinfo_id}],
           misinfo_id, draw)

\* variant: a countermeasure is recorded only for an item the user received
receive_tweet_known_only(user, misinfo_id, is_countermeasure, draw) ==
  IF is_countermeasure
    THEN LET u1 == IF misinfo_id \in user.received_misinfo
                     THEN [user EXCEPT !.received_countermeasures = @ \cup {misinfo_id}]
                     ELSE user
         IN IF misinfo_id \in u1.retweeted_misinfo
              THEN IF draw
                THEN [u1 EXCEPT !.retweeted_misinfo = @ \ {misinfo_id},
                                !.retracted = TRUE, !.draws = @ + 1]
                ELSE [u1 EXCEPT !.draws = @ + 1]
              ELSE u1
    ELSE _consider_retweeting(
           [user EXCEPT !.received_misinfo = @ \cup {misinfo_id}],
           misinfo_id, draw)

\* UserAgent.receive_tweet: draw stands for random() < threshold of the branch;
\* `A and random() < p` draws only when A holds
receive_tweet(user, misinfo_id, is_countermeasure, draw) ==
  IF is_countermeasure
    THEN LET u1 == [user EXCEPT !.received_countermeasures = @ \cup {misinfo_id}]
         IN IF misinfo_id \in u1.retweeted_misinfo
              THEN IF draw
                THEN [u1 EXCEPT !.retweeted_misinfo = @ \ {misinfo_id},
                                !.retracted = TRUE, !.draws = @ + 1]
                ELSE [u1 EXCEPT !.draws = @ + 1]
              ELSE u1
    ELSE _consider_retweeting(
           [user EXCEPT !.received_misinfo = @ \cup {misinfo_id}],
           misinfo_id, draw)

\* MisinformationModel.user_retweet (from the specification): the aggregate
\* share count of the item is updated immediately upon a share
user_retweet(stats, misinfo_id) ==
  [stats EXCEPT ![misinfo_id] = @ + 1]

\* MisinformationModel.record_retraction (from the specification): a
\* notification to the engine; the aggregate share count is not specified to
\* change
record_retraction(stats, misinfo_id) == stats

\* ---------------------------------------------------- CountermeasureAgent
\* A controller: its type, its delay (fact_check), its two maps, and the
\* misinfo ids for which the call requested a broadcast
\* (model.deploy_countermeasure) and assigned active_countermeasures.
Controller(type, delay, pending, active) ==
  [type |-> type, delay |-> delay, pending_countermeasures |-> pending,
   active_countermeasures |-> active, deploys |-> {}, writes |-> {}]

\* variant: every type schedules the activation
activate_countermeasure_delayed(cm, misinfo_id, current_step) ==
  [cm EXCEPT !.pending_countermeasures =
                Put(@, misinfo_id, current_step + cm.delay)]

\* CountermeasureAgent.activate_countermeasure
activate_countermeasure(cm, misinfo_id, current_step) ==
  IF cm.type = "fact_check"
    THEN [cm EXCEPT !.pending_countermeasures =
                       Put(@, misinfo_id, current_step + cm.delay)]
    ELSE [cm EXCEPT !.active_countermeasures = Put(@, misinfo_id, current_step),
                    !.writes = {misinfo_id},
                    !.deploys = {misinfo_id}]

\* variant: the comparison is reversed
matured_reversed(current_step, activation_step) == current_step <= activation_step

\* the comparison of CountermeasureAgent.step: current_step >= activation_step
matured(current_step, activation_step) == current_step >= activation_step

\* variant: every tick broadcasts again for the ids already active
CountermeasureAgent_step_rebroadcast(cm) ==
  LET current_step == step_count
      to_activate == {m \in DOMAIN cm.pending_countermeasures :
                        matured(current_step, cm.pending_countermeasures[m])}
  IN [cm EXCEPT
        !.active_countermeasures =
           [m \in (DOMAIN @) \cup to_activate |->
              IF m \in to_activate THEN current_step ELSE @[m]],
        !.pending_countermeasures =
           [m \in (DOMAIN @) \ to_activate |-> @[m]],
        !.writes = to_activate,
        !.deploys = to_activate \cup DOMAIN cm.active_countermeasures]

\* variant: the matured ids are activated without a broadcast
CountermeasureAgent_step_silent(cm) ==
  LET current_step == step_count
      to_activate == {m \in DOMAIN cm.pending_countermeasures :
                        matured(current_step, cm.pending_countermeasures[m])}
  IN [cm EXCEPT
        !.active_countermeasures =
           [m \in (DOMAIN @) \cup to_activate |->
              IF m \in to_activate THEN current_step ELSE @[m]],
        !.pending_countermeasures =
           [m \in (DOMAIN @) \ to_activate |-> @[m]],
        !.writes = to_activate]

\* CountermeasureAgent.step, with current_step = getattr(model, "step_count", 0)
CountermeasureAgent_step(cm) ==
  LET current_step == step_count
      to_activate == {m \in DOMAIN cm.pending_countermeasures :
                        matured(current_step, cm.pending_countermeasures[m])}
  IN [cm EXCEPT
        !.active_countermeasures =
           [m \in (DOMAIN @) \cup to_activate |->
              IF m \in to_activate THEN current_step ELSE @[m]],
        !.pending_countermeasures =
           [m \in (DOMAIN @) \ to_activate |-> @[m]],
        !.writes = to_activate,
        !.deploys = to_activate]

\* ---------------------------------------------------- MisinformationModel
\* int(tweet['time_since_start'] / self.time_unit): truncation toward zero
TimeStep(t) == IF t >= 0 THEN t \div time_unit ELSE -((-t) \div time_unit)

\* a timeline record
Tweets == [misinfo_id : Mids, time_since_start : Times]

RECURSIVE SeqsUpTo(_, _)
SeqsUpTo(S, n) ==
  IF n = 0 THEN {<<>>}
  ELSE LET shorter == SeqsUpTo(S, n - 1)
       IN shorter \cup {Append(s, x) : s \in {q \in shorter : Len(q) = n - 1}, x \in S}

\* the order sort_values('time_since_start') leaves the records in
SortedByTime(s) ==
  \A i \in 1..Len(s) - 1 : s[i].time_since_start <= s[i + 1].time_since_start

\* MisinformationModel._schedule_tweets: the records in the order
\* sort_values('time_since_start') leaves them in, each with its tick.  The
\* results over all timelines are exactly the time-sorted sequences.
_schedule_tweets(sorted_tweets) ==
  [i \in 1..Len(sorted_tweets) |->
     <<TimeStep(sorted_tweets[i].time_since_start), sorted_tweets[i]>>]

Schedules ==
  {_schedule_tweets(s) : s \in {q \in SeqsUpTo(Tweets, MaxTweets) : SortedByTime(q)}}

\* list.remove(x): the position of the first element equal to x
FirstIndex(seq, x) ==
  CHOOSE j \in 1..Len(seq) : seq[j] = x /\ \A k \in 1..(j - 1) : seq[k] # x

RemoveAt(seq, j) == SubSeq(seq, 1, j - 1) \o SubSeq(seq, j + 1, Len(seq))

\* variant: the dispatched record is left in the list
list_remove_missing(sched, entry) == sched

\* self.scheduled_tweets.remove((step, tweet)), on the list and on the ghost
\* identities kept beside it
list_remove(sched, entry) ==
  LET j == FirstIndex(sched.tweets, entry)
  IN [sched EXCEPT !.tweets = RemoveAt(@, j), !.ids = RemoveAt(@, j)]

\* variant: every record is due in every tick
is_due_always(step, current_step) == TRUE

\* variant: a record is due only after its tick has passed
is_due_strict(step, current_step) == step < current_step

\* the comparison of MisinformationModel.step: step <= current_step
is_due(step, current_step) == step <= current_step

\* MisinformationModel.process_tweet: `pass`; only the ghost log of the call
process_tweet(sched, id, entry, current_step) ==
  [sched EXCEPT !.dispatched[id] = Append(@, <<current_step, entry>>),
                !.trace = Append(@, [call |-> "process_tweet", arg |-> id])]

\* the dispatch loop of MisinformationModel.step over the copy
\* self.scheduled_tweets[:], from position i on
RECURSIVE dispatch_loop(_, _, _, _, _)
dispatch_loop(copy, copy_ids, i, sched, current_step) ==
  IF i > Len(copy) THEN sched
  ELSE IF is_due(copy[i][1], current_step)
    THEN dispatch_loop(copy, copy_ids, i + 1,
           list_remove(process_tweet(sched, copy_ids[i], copy[i], current_step), copy[i]),
           current_step)
    ELSE dispatch_loop(copy, copy_ids, i + 1, sched, current_step)

\* the order in which MisinformationModel._create_agents adds the controllers
AgentOrder == <<"key_node", "fact_check", "early_warning">>

\* for agent in self.agents: agent.step() -- the calls on the controllers
\* (UserAgent.step is `pass`), appended to the calls of the tick so far
RECURSIVE agents_step(_, _, _)
agents_step(trace, enabled, i) ==
  IF i > Len(AgentOrder) THEN trace
  ELSE agents_step(
         IF AgentOrder[i] \in enabled
           THEN Append(trace, [call |-> "agent_step", arg |-> AgentOrder[i]])
           ELSE trace,
         enabled, i + 1)

\* variant: the agents are stepped before the due records are dispatched
engine_tick_agents_first(sched, enabled, current_step) ==
  LET stepped == [sched EXCEPT !.trace = agents_step(@, enabled, 1)]
  IN dispatch_loop(sched.tweets, sched.ids, 1, stepped, current_step)

\* the body of MisinformationModel.step: the dispatch loop, then the agents
engine_tick(sched, enabled, current_step) ==
  LET sent == dispatch_loop(sched.tweets, sched.ids, 1, sched, current_step)
  IN [sent EXCEPT !.trace = agents_step(@, enabled, 1)]

\* variant: the engine counts the call before it reads the tick
current_tick_counted(n) == n + 1

\* current_step = self.num_steps
current_tick(n) == n

\* the tick counter after a call of step (from the specification: it
\* increments by exactly 1 per call)
NextTick(n) == n + 1

\* ------------------------------------------------------------------ state
NoTick == 0 - 1
NoOp == [op |-> "init", who |-> "-", mid |-> "-"]

UserOf(u) ==
  UserState(received_misinfo[u], retweeted_misinfo[u],
            received_countermeasures[u], FALSE, FALSE)

ControllerOf(c) ==
  Controller(c, settings.fact_check_delay,
             pending_countermeasures[c], active_countermeasures[c])

InitUsers ==
  /\ received_misinfo = [u \in Users |-> {}]
  /\ retweeted_misinfo = [u \in Users |-> {}]
  /\ received_countermeasures = [u \in Users |-> {}]
  /\ misinfo_stats = [m \in Mids |-> 0]
  /\ share_notes = [u \in Users |-> [m \in Mids |-> 0]]
  /\ retraction_notes = [u \in Users |-> [m \in Mids |-> 0]]

InitControllers ==
  /\ pending_countermeasures = [c \in CmTypes |-> EmptyMap]
  /\ active_countermeasures = [c \in CmTypes |-> EmptyMap]
  /\ deployed = [c \in CmTypes |-> [m \in Mids |-> 0]]
  /\ active_writes = [c \in CmTypes |-> [m \in Mids |-> 0]]
  /\ triggers = [c \in CmTypes |-> [m \in Mids |-> NoTick]]

\* ------------------------------------------------------------- construction
\* a user record of users_data
UserRecords == [user_id : Users \cup {NoId}, followers_count : FollowerCounts]

\* variant: every record counts as having an identity
has_identity_any(user_id) == TRUE

\* `if user_id:` / `if not user_id: continue`
has_identity(user_id) == user_id # NoId

\* self.add(agent): the agent joins the agents of the model
add(agents, agent) == Append(agents, agent)

\* the first loop of _setup_network: a node per record with an identity
RECURSIVE add_nodes(_, _, _)
add_nodes(users, i, nodes) ==
  IF i > Len(users) THEN nodes
  ELSE add_nodes(users, i + 1,
         IF has_identity(users[i].user_id) THEN nodes \cup {users[i].user_id}
                                           ELSE nodes)

\* the edges _create_synthetic_network may add: from every record with an
\* identity and followers_count > 1000 to every other identity, each when
\* self.random.random() < follow_prob
synthetic_candidates(users) ==
  {<<users[i].user_id, users[j].user_id>> : i \in DOMAIN users, j \in DOMAIN users}
    \cap {e \in (Users \cup {NoId}) \X (Users \cup {NoId}) :
            /\ has_identity(e[1])
            /\ \E i \in DOMAIN users :
                 users[i].user_id = e[1] /\ users[i].followers_count > 1000
            /\ has_identity(e[2])
            /\ e[2] # e[1]}

\* variant: the edge is added from the follower to the followed
_setup_network_forward(users, network_edges, chosen) ==
  LET nodes == add_nodes(users, 1, {})
  IN [nodes |-> nodes,
      edges |-> IF network_edges # {}
                  THEN {x \in network_edges : x[1] \in nodes /\ x[2] \in nodes}
                  ELSE chosen]

\* MisinformationModel._setup_network; chosen are the synthetic edges the
\* random draws selected
_setup_network(users, network_edges, chosen) ==
  LET nodes == add_nodes(users, 1, {})
  IN [nodes |-> nodes,
      edges |-> IF network_edges # {}
                  THEN {<<e[2], e[1]>> : e \in {x \in network_edges :
                                                   x[1] \in nodes /\ x[2] \in nodes}}
                  ELSE chosen]

\* the first loop of _create_agents: a UserAgent per record with an identity
RECURSIVE create_user_agents(_, _, _)
create_user_agents(users, i, agents) ==
  IF i > Len(users) THEN agents
  ELSE create_user_agents(users, i + 1,
         IF has_identity(users[i].user_id) THEN add(agents, users[i].user_id)
                                           ELSE agents)

\* CountermeasureAgent.__init__: the if/elif chain over the three types has
\* no else branch, so every type is accepted
CountermeasureAgent_init(countermeasure_type, delay) ==
  [status |-> "ok",
   agent |-> Controller(countermeasure_type, delay, EmptyMap, EmptyMap)]

\* the controllers _create_agents adds: one per key_node_enabled,
\* fact_check_enabled, early_warning_enabled; other keys are never read
create_controllers(flags) ==
  {AgentOrder[i] : i \in {k \in DOMAIN AgentOrder : AgentOrder[k] \in flags}}

\* tweets_timeline: whether it has a time_since_start column, and its records
\* (in the order sort_values leaves them in when it has)
TimedTimelines ==
  {[has_time |-> TRUE, records |-> s] :
     s \in {q \in SeqsUpTo(Tweets, MaxTweets) : SortedByTime(q)}}
UntimedTimelines ==
  {[has_time |-> FALSE, records |-> s] :
     s \in SeqsUpTo([misinfo_id : Mids], MaxTweets)}
\* pd.DataFrame([]) has no column
EmptyList == [has_time |-> FALSE, records |-> <<>>]

\* variant: the column is not looked for
missing_timestamps_unchecked(timeline) == FALSE

\* 'time_since_start' not in self.tweets_timeline.columns
missing_timestamps(timeline) == ~timeline.has_time

\* the call of _schedule_tweets in __init__: warning and return when the
\* column is missing; sort_values raises KeyError on a missing column
schedule_from_timeline(timeline) ==
  IF missing_timestamps(timeline)
    THEN [status |-> "ok", scheduled_tweets |-> <<>>]
  ELSE IF timeline.has_time
    THEN [status |-> "ok", scheduled_tweets |-> _schedule_tweets(timeline.records)]
  ELSE [status |-> "error", scheduled_tweets |-> <<>>]

\* the input and the settings of a construction
DefaultUsers ==
  LET ids == <<"u1", "u2">>
  IN [i \in DOMAIN ids |-> [user_id |-> ids[i], followers_count |-> 10]]

\* MisinformationModel.__init__ on the given input: the network, the agents,
\* the schedule
InitFrom(users, network_edges, chosen, timeline, flags, delays, thresholds) ==
  LET built == schedule_from_timeline(timeline)
  IN /\ preprocessed_data = [users |-> users, network_edges |-> network_edges,
                              tweets_timeline |-> timeline]
     /\ countermeasure_flags = flags
     /\ G = _setup_network(users, network_edges, chosen)
     /\ user_agents = create_user_agents(users, 1, <<>>)
     /\ constructed = {}
     /\ status = built.status
     /\ num_steps = 0
     /\ scheduled_tweets = built.scheduled_tweets
     /\ sched_ids = [i \in 1..Len(built.scheduled_tweets) |-> i]
     /\ dispatched = [i \in 1..Len(built.scheduled_tweets) |-> <<>>]
     /\ step_ticks = <<>>
     /\ tick_trace = <<>>
     /\ dispatch_log = <<>>
     /\ settings \in [enabled : {create_controllers(flags)}, fact_check_delay : delays,
                      fact_check_threshold : thresholds]
     /\ InitUsers
     /\ InitControllers
     /\ draws = 0
     /\ lastOp = NoOp

\* MisinformationModel.__init__ with the given schedule and settings
InitWith(schedule, enabled, delays, thresholds) ==
  /\ preprocessed_data =
       [users |-> DefaultUsers, network_edges |-> {},
        tweets_timeline |-> [has_time |-> TRUE,
                             records |-> [i \in DOMAIN schedule |-> schedule[i][2]]]]
  /\ G = _setup_network(DefaultUsers, {}, {})
  /\ user_agents = create_user_agents(DefaultUsers, 1, <<>>)
  /\ constructed = {}
  /\ status = "ok"
  /\ num_steps = 0
  /\ scheduled_tweets = schedule
  /\ sched_ids = [i \in 1..Len(schedule) |-> i]
  /\ dispatched = [i \in 1..Len(schedule) |-> <<>>]
  /\ step_ticks = <<>>
  /\ tick_trace = <<>>
  /\ dispatch_log = <<>>
  /\ settings \in [enabled : enabled, fact_check_delay : delays,
                   fact_check_threshold : thresholds]
  /\ countermeasure_flags = settings.enabled
  /\ InitUsers
  /\ InitControllers
  /\ draws = 0
  /\ lastOp = NoOp

\* the controllers MisinformationModel._create_agents adds for the settings:
\* any of the three *_enabled flags
Configs == {S \in SUBSET CmTypes : Cardinality(S) <= MaxControllers}

\* ---------------------------------------------------------------- actions
\* user.receive_tweet(tweet, is_countermeasure) on one user, with the
\* notifications it sends to the model
Deliver(u, m, is_countermeasure, draw) ==
  LET after == receive_tweet(UserOf(u), m, is_countermeasure, draw)
      stats1 == IF after.shared THEN user_retweet(misinfo_stats, m) ELSE misinfo_stats
      stats2 == IF after.retracted THEN record_retraction(stats1, m) ELSE stats1
  IN /\ received_misinfo' = [received_misinfo EXCEPT ![u] = after.received_misinfo]
     /\ retweeted_misinfo' = [retweeted_misinfo EXCEPT ![u] = after.retweeted_misinfo]
     /\ received_countermeasures' =
          [received_countermeasures EXCEPT ![u] = after.received_countermeasures]
     /\ misinfo_stats' = stats2
     /\ share_notes' =
          [share_notes EXCEPT ![u][m] = IF after.shared THEN @ + 1 ELSE @]
     /\ retraction_notes' =
          [retraction_notes EXCEPT ![u][m] = IF after.retracted THEN @ + 1 ELSE @]
     /\ draws' = after.draws
     /\ lastOp' = [op |-> IF is_countermeasure THEN "countermeasure" ELSE "misinfo",
                   who |-> u, mid |-> m]
     /\ UNCHANGED <<num_steps, schedVars, settings, cmVars, setupVars, constructed>>

RECURSIVE SumOver(_, _)
SumOver(f, S) ==
  IF S = {} THEN 0
  ELSE LET x == CHOOSE y \in S : TRUE IN f[x] + SumOver(f, S \ {x})

TotalNotes ==
  SumOver([p \in Users \X Mids |-> share_notes[p[1]][p[2]]], Users \X Mids)

DeliverMisinfo ==
  \E u \in Users, m \in Mids, draw \in BOOLEAN :
    /\ TotalNotes < MaxNotes
    /\ Deliver(u, m, FALSE, draw)

\* a misinformation delivery in a run without countermeasures
DeliverMisinfoOnly ==
  \E u \in Users, m \in Mids, draw \in BOOLEAN :
    /\ misinfo_stats[m] < MaxShares
    /\ Deliver(u, m, FALSE, draw)

DeliverCountermeasure ==
  \E u \in Users, m \in Mids, draw \in BOOLEAN :
    Deliver(u, m, TRUE, draw)

\* controller.activate_countermeasure(misinfo_id, current tick)
Activate ==
  \E c \in settings.enabled, m \in Mids :
    LET after == activate_countermeasure(ControllerOf(c), m, num_steps)
    IN /\ deployed[c][m] < MaxActivations
       /\ pending_countermeasures' =
            [pending_countermeasures EXCEPT ![c] = after.pending_countermeasures]
       /\ active_countermeasures' =
            [active_countermeasures EXCEPT ![c] = after.active_countermeasures]
       /\ deployed' = [deployed EXCEPT ![c] =
            [x \in Mids |-> IF x \in after.deploys THEN @[x] + 1 ELSE @[x]]]
       /\ active_writes' = [active_writes EXCEPT ![c] =
            [x \in Mids |-> IF x \in after.writes THEN @[x] + 1 ELSE @[x]]]
       /\ triggers' = [triggers EXCEPT ![c][m] = num_steps]
       /\ lastOp' = [op |-> "activate", who |-> "-", mid |-> "-"]
       /\ UNCHANGED <<num_steps, schedVars, userVars, settings, setupVars, constructed,
                      draws>>

\* MisinformationModel.step: dispatch the due records, step every agent
\* (UserAgent.step is `pass`), collect the metrics
Step ==
  /\ status = "ok"
  /\ num_steps < MaxTick
  /\ LET current_step == current_tick(num_steps)
         sched == engine_tick([tweets |-> scheduled_tweets, ids |-> sched_ids,
                               dispatched |-> dispatched, trace |-> <<>>],
                              settings.enabled, current_step)
         sent == SelectSeq(sched.trace, LAMBDA call : call.call = "process_tweet")
         after == [c \in CmTypes |->
                     IF c \in settings.enabled
                       THEN CountermeasureAgent_step(ControllerOf(c))
                       ELSE ControllerOf(c)]
     IN /\ scheduled_tweets' = sched.tweets
        /\ sched_ids' = sched.ids
        /\ dispatched' = sched.dispatched
        /\ step_ticks' = Append(step_ticks, current_step)
        /\ tick_trace' = sched.trace
        /\ dispatch_log' = dispatch_log \o
             [i \in 1..Len(sent) |->
                [id |-> sent[i].arg, at |-> current_step,
                 step |-> scheduled_tweets[FirstIndex(sched_ids, sent[i].arg)][1]]]
        /\ pending_countermeasures' = [c \in CmTypes |-> after[c].pending_countermeasures]
        /\ active_countermeasures' = [c \in CmTypes |-> after[c].active_countermeasures]
        /\ deployed' = [c \in CmTypes |-> [m \in Mids |->
             IF m \in after[c].deploys THEN deployed[c][m] + 1 ELSE deployed[c][m]]]
        /\ active_writes' = [c \in CmTypes |-> [m \in Mids |->
             IF m \in after[c].writes THEN active_writes[c][m] + 1
                                       ELSE active_writes[c][m]]]
        /\ num_steps' = NextTick(num_steps)
        /\ draws' = 0
        /\ lastOp' = [op |-> "step", who |-> "-", mid |-> "-"]
        /\ UNCHANGED <<userVars, settings, triggers, setupVars, constructed>>

\* --------------------------------------------------------- specifications
\* Users: deliveries to the users, interleaved with engine ticks
InitUserSpec == InitWith(<<>>, {{"fact_check"}}, {MaxDelay}, {MaxNotes})
NextUsers == DeliverMisinfo \/ DeliverCountermeasure \/ Step
SpecUsers == InitUserSpec /\ [][NextUsers]_vars

\* Controllers: activations interleaved with engine ticks
InitControllerSpec == InitWith(<<>>, Configs \ {{}}, 0..MaxDelay, {MaxNotes})
NextControllers == Activate \/ Step
SpecControllers == InitControllerSpec /\ [][NextControllers]_vars

\* Schedule: the engine's ticks over every schedule _schedule_tweets builds
InitScheduleSpec ==
  \E timeline \in TimedTimelines \cup UntimedTimelines, flags \in Configs :
    InitFrom(DefaultUsers, {}, {}, timeline, flags, {MaxDelay}, {MaxNotes})
NextSchedule == Step
SpecSchedule == InitScheduleSpec /\ [][NextSchedule]_vars

\* NoCountermeasures: no controller enabled, misinformation deliveries and
\* engine ticks only
InitNoCountermeasures == InitWith(<<>>, {{}}, {MaxDelay}, {MaxNotes})
NextNoCountermeasures == DeliverMisinfoOnly \/ Step
SpecNoCountermeasures == InitNoCountermeasures /\ [][NextNoCountermeasures]_vars

\* Setup: the network and the user agents built from every input, then the
\* engine's ticks
UsersData == SeqsUpTo(UserRecords, MaxUserRecords)
NetworkEdges == {E \in SUBSET (Users \X Users) : Cardinality(E) <= MaxEdges}
InitSetupSpec ==
  \E users \in UsersData, network_edges \in NetworkEdges :
    \E chosen \in SUBSET synthetic_candidates(users) :
      InitFrom(users, network_edges, chosen, EmptyList, {}, {MaxDelay}, {MaxNotes})
NextSetup == Step
SpecSetup == InitSetupSpec /\ [][NextSetup]_vars

\* CountermeasureAgent(unique_id, model, countermeasure_type, settings) called
\* with any type
Construct ==
  \E t \in CmTypes \cup UnknownTypes :
    LET made == CountermeasureAgent_init(t, settings.fact_check_delay)
    IN /\ status = "ok"
       /\ Cardinality(constructed) < MaxControllers
       /\ status' = made.status
       /\ constructed' = constructed \cup {made.agent.type}
       /\ lastOp' = [op |-> "construct", who |-> "-", mid |-> "-"]
       /\ UNCHANGED <<num_steps, schedVars, userVars, settings, cmVars,
                      preprocessed_data, countermeasure_flags, G, user_agents, draws>>

\* Configuration: every set of <type>_enabled flags, known types or not, and
\* controllers constructed by a caller
FlagSets == {S \in SUBSET (CmTypes \cup UnknownTypes) : Cardinality(S) <= MaxControllers}
InitConfigSpec ==
  \E flags \in FlagSets :
    InitFrom(DefaultUsers, {}, {}, EmptyList, flags, 0..MaxDelay, {MaxNotes})
NextConfig == Construct \/ Step
SpecConfig == InitConfigSpec /\ [][NextConfig]_vars

\* MisinformationModel.get_total_retweets
get_total_retweets == SumOver(misinfo_stats, Mids)

\* ------------------------------------------------------------------ claims
fc == "fact_check"
Range(seq) == {seq[i] : i \in DOMAIN seq}

\* C1: every user's shared set (retweeted_misinfo) is a subset of its
\* received_misinfo set, after every delivery and every engine tick.
C1_SharedSubsetReceived ==
  \A u \in Users : retweeted_misinfo[u] \subseteq received_misinfo[u]

\* a tick has just run on a user that has shared an item and has received a
\* countermeasure
C1_Witness ==
  /\ lastOp.op = "step"
  /\ \E u \in Users : retweeted_misinfo[u] # {} /\ received_countermeasures[u] # {}

\* C2 (as stated): model.user_retweet is called at most once per
\* (user, misinfo_id), retractions included.
C2_ShareNotifiedAtMostOnce ==
  \A u \in Users, m \in Mids : share_notes[u][m] <= 1

\* C2 (amended): a share notification is sent only when the id is not in the
\* shared set, so the notifications for (user, misinfo_id) number the
\* retractions of that id by that user, plus one while the id is shared.
C2_ShareOncePerRetraction ==
  \A u \in Users, m \in Mids :
    share_notes[u][m] =
      retraction_notes[u][m] + (IF m \in retweeted_misinfo[u] THEN 1 ELSE 0)

\* a user has shared an item, retracted it and shared it again
C2_Witness ==
  \E u \in Users, m \in Mids :
    share_notes[u][m] = 2 /\ retraction_notes[u][m] = 1

\* C3: an id leaves a user's shared set only in a countermeasure delivery for
\* that id to that user (never in a misinformation delivery or a tick), and a
\* retraction notification is sent only together with such a removal.
C3_RetractionOnlyByCountermeasure ==
  [][\A u \in Users, m \in Mids :
       LET removed == m \in retweeted_misinfo[u] /\ m \notin retweeted_misinfo'[u]
       IN /\ removed =>
               /\ lastOp' = [op |-> "countermeasure", who |-> u, mid |-> m]
               /\ retraction_notes'[u][m] = retraction_notes[u][m] + 1
          /\ retraction_notes'[u][m] # retraction_notes[u][m] => removed]_vars

\* a user shares two items and has retracted one of them
C3_Witness ==
  \E u \in Users, m \in Mids :
    /\ retraction_notes[u][m] = 1
    /\ m \notin retweeted_misinfo[u]
    /\ retweeted_misinfo[u] # {}

\* C4 (as stated): no misinfo_id is a key of both pending_countermeasures and
\* active_countermeasures of one controller.
C4_PendingActiveDisjoint ==
  \A c \in CmTypes :
    (DOMAIN pending_countermeasures[c]) \cap (DOMAIN active_countermeasures[c]) = {}

\* C5 (as stated): active[misinfo_id] is written at most once (its tick never
\* changes, no further broadcast is requested once the id is active).
C5_ActivatedAtMostOnce ==
  [][\A c \in CmTypes, m \in Mids :
       m \in DOMAIN active_countermeasures[c] =>
         /\ m \in DOMAIN active_countermeasures'[c]
         /\ active_countermeasures'[c][m] = active_countermeasures[c][m]
         /\ deployed'[c][m] = deployed[c][m]]_vars

\* C6: for fact_check, an id enters active (and its broadcast is requested)
\* only in an engine tick >= trigger tick + delay; the tick recorded in
\* active is not smaller either.
C6_FactCheckNotEarly ==
  [][\A m \in Mids :
       (\/ deployed'[fc][m] > deployed[fc][m]
        \/ (m \notin DOMAIN active_countermeasures[fc]
              /\ m \in DOMAIN active_countermeasures'[fc]))
       => /\ triggers[fc][m] # NoTick
          /\ num_steps >= triggers[fc][m] + settings.fact_check_delay
          /\ active_countermeasures'[fc][m] >=
               triggers[fc][m] + settings.fact_check_delay
          /\ deployed'[fc][m] = deployed[fc][m] + 1]_vars

\* the fact_check controller has activated a triggered id and requested its
\* broadcast
C6_Witness ==
  \E m \in Mids :
    /\ m \in DOMAIN active_countermeasures[fc]
    /\ deployed[fc][m] = 1
    /\ triggers[fc][m] # NoTick

\* C7 (as stated): a tick below pending[misinfo_id] = T leaves the id
\* pending; the tick whose current tick is T removes it from pending, sets
\* active[misinfo_id] = T and requests a broadcast.
C7_PendingMaturesAtItsTick ==
  [][\A m \in DOMAIN pending_countermeasures[fc] :
       LET T == pending_countermeasures[fc][m]
       IN num_steps' = num_steps + 1 =>
            /\ num_steps < T =>
                 /\ m \in DOMAIN pending_countermeasures'[fc]
                 /\ pending_countermeasures'[fc][m] = T
            /\ num_steps = T =>
                 /\ m \notin DOMAIN pending_countermeasures'[fc]
                 /\ m \in DOMAIN active_countermeasures'[fc]
                 /\ active_countermeasures'[fc][m] = T
                 /\ deployed'[fc][m] = deployed[fc][m] + 1]_vars

\* C8 (as stated): when the share count of an item has reached the
\* fact_check threshold in tick t and the item is neither pending nor active,
\* the end of tick t finds pending[item] = t + delay.
C8_ThresholdSchedulesFactCheck ==
  [][\A m \in Mids :
       (/\ num_steps' = num_steps + 1
        /\ fc \in settings.enabled
        /\ misinfo_stats[m] >= settings.fact_check_threshold
        /\ m \notin DOMAIN pending_countermeasures[fc]
        /\ m \notin DOMAIN active_countermeasures[fc])
       => /\ m \in DOMAIN pending_countermeasures'[fc]
          /\ pending_countermeasures'[fc][m] =
               num_steps + settings.fact_check_delay]_vars

\* C9: every scheduled record is passed to process_tweet at most once, and is
\* out of scheduled_tweets from the tick of its dispatch on (and in it until
\* then), equal records included.
C9_DispatchedAtMostOnce ==
  \A id \in DOMAIN dispatched :
    /\ Len(dispatched[id]) <= 1
    /\ Len(dispatched[id]) = 1 <=> id \notin Range(sched_ids)
    /\ Len(scheduled_tweets) = Len(sched_ids)

\* two records that compare equal have both been dispatched, in one tick
C9_Witness ==
  \E i, j \in DOMAIN dispatched :
    /\ i # j
    /\ Len(dispatched[i]) = 1
    /\ dispatched[i] = dispatched[j]

\* C10: a record scheduled for tick T is dispatched in the first engine tick
\* whose current tick is >= T: no record with a tick below num_steps is left,
\* each dispatch happened in the record's own tick, and the schedule is empty
\* once (largest scheduled tick + 1) ticks have run.
C10_DispatchedWhenDue ==
  /\ \A j \in DOMAIN scheduled_tweets :
       /\ scheduled_tweets[j][1] >= num_steps
       /\ dispatched[sched_ids[j]] = <<>>
  /\ \A id \in (DOMAIN dispatched) \ Range(sched_ids) :
       /\ Len(dispatched[id]) >= 1
       /\ dispatched[id][1][1] = dispatched[id][1][2][1]
  /\ LET ticks == {scheduled_tweets[j][1] : j \in DOMAIN scheduled_tweets}
                     \cup {dispatched[id][1][2][1] :
                             id \in {x \in DOMAIN dispatched : dispatched[x] # <<>>}}
     IN (\A t \in ticks : num_steps >= t + 1) => scheduled_tweets = <<>>

\* a schedule with records of two different ticks has been emptied
C10_Witness ==
  /\ scheduled_tweets = <<>>
  /\ \E i, j \in DOMAIN dispatched :
       /\ Len(dispatched[i]) = 1 /\ Len(dispatched[j]) = 1
       /\ dispatched[i][1][1] = 0
       /\ dispatched[j][1][1] = 1

C12_DispatchBeforeAdvance ==
  \A i, j \in DOMAIN tick_trace :
    (tick_trace[i].call = "agent_step" /\ tick_trace[j].call = "process_tweet")
      => j < i

\* a tick dispatched two records and then advanced a controller
C12_Witness ==
  /\ Len(tick_trace) >= 3
  /\ tick_trace[1].call = "process_tweet"
  /\ tick_trace[2].call = "process_tweet"
  /\ tick_trace[Len(tick_trace)].call = "agent_step"

\* C13: a call of step in a state with an empty schedule and no pending
\* activation changes no user set, no controller map and no aggregate, and
\* requests no broadcast.
C13_TailTicksIdempotent ==
  [][(/\ num_steps' = num_steps + 1
      /\ scheduled_tweets = <<>>
      /\ \A c \in CmTypes : pending_countermeasures[c] = EmptyMap)
     => UNCHANGED <<received_misinfo, retweeted_misinfo, received_countermeasures,
                    misinfo_stats, pending_countermeasures,
                    active_countermeasures, deployed, active_writes>>]_vars

\* a tick has run on a controller that holds an active entry and nothing
\* pending
C13_Witness ==
  /\ lastOp.op = "step"
  /\ settings.enabled = {"key_node"}
  /\ active_countermeasures["key_node"] # EmptyMap
  /\ scheduled_tweets = <<>>

\* C18: key_node and early_warning controllers never hold a pending entry,
\* and an id they were asked to activate is active from that call on, with
\* the tick of the call.
C18_ImmediateTypesNeverPending ==
  \A c \in CmTypes \ {fc} :
    /\ pending_countermeasures[c] = EmptyMap
    /\ \A m \in Mids :
         triggers[c][m] # NoTick =>
           /\ m \in DOMAIN active_countermeasures[c]
           /\ active_countermeasures[c][m] = triggers[c][m]

\* an early_warning controller activated an id at tick 1 and a tick has run
\* since
C18_Witness ==
  /\ lastOp.op = "step"
  /\ \E m \in Mids :
       /\ triggers["early_warning"][m] = 1
       /\ m \in DOMAIN active_countermeasures["early_warning"]

\* C20: model.deploy_countermeasure(controller, misinfo_id) is called exactly
\* once in every operation that assigns active[misinfo_id] and in no other,
\* and activate_countermeasure on fact_check does neither.
C20_BroadcastIffActivation ==
  [][\A c \in CmTypes, m \in Mids :
       LET written == active_writes'[c][m] - active_writes[c][m]
           requested == deployed'[c][m] - deployed[c][m]
       IN /\ written = requested
          /\ requested \in {0, 1}
          /\ requested = 1 => m \in DOMAIN active_countermeasures'[c]
          /\ (m \in DOMAIN active_countermeasures'[c]
               /\ m \notin DOMAIN active_countermeasures[c]) => requested = 1
          /\ (lastOp'.op = "activate" /\ c = fc) =>
               /\ requested = 0
               /\ active_countermeasures'[c] = active_countermeasures[c]]_vars

\* a tick moved a pending fact_check id to active and requested its broadcast
C20_Witness ==
  /\ lastOp.op = "step"
  /\ \E m \in Mids :
       /\ active_writes[fc][m] = 1
       /\ deployed[fc][m] = 1
       /\ m \notin DOMAIN pending_countermeasures[fc]

\* C19: with no countermeasure enabled, the share count of each item equals
\* the number of users that hold it in their shared set, so it never exceeds
\* the number of users, and the total over the items never exceeds the
\* number of users per shared item.
C19_SharesAtMostUsers ==
  settings.enabled = {} =>
    /\ \A m \in Mids :
         /\ misinfo_stats[m] = Cardinality({u \in Users : m \in retweeted_misinfo[u]})
         /\ misinfo_stats[m] <= Cardinality(Users)
    /\ get_total_retweets <=
         Cardinality(Users) * Cardinality({m \in Mids : misinfo_stats[m] > 0})

\* every user has shared one item, a delivery of it came after that, and
\* the ticks have run out
C19_Witness ==
  /\ settings.enabled = {}
  /\ num_steps = MaxTick
  /\ lastOp.op = "misinfo"
  /\ misinfo_stats[lastOp.mid] = Cardinality(Users)
  /\ \A m \in Mids \ {lastOp.mid} : misinfo_stats[m] = 0

\* C14: with an empty tweets_timeline construction succeeds, the schedule is
\* empty and stays so over the ticks, the total share count is zero and no
\* controller has a pending or an active entry.
C14_EmptyTimelineRuns ==
  preprocessed_data.tweets_timeline.records = <<>> =>
    /\ status = "ok"
    /\ scheduled_tweets = <<>>
    /\ get_total_retweets = 0
    /\ \A c \in CmTypes :
         /\ pending_countermeasures[c] = EmptyMap
         /\ active_countermeasures[c] = EmptyMap

\* the engine built from an empty list has run every tick with a fact_check
\* controller
C14_Witness ==
  /\ preprocessed_data.tweets_timeline = EmptyList
  /\ settings.enabled = {fc}
  /\ status = "ok"
  /\ num_steps = MaxTick
  /\ Len(step_ticks) = MaxTick

\* C15 (as stated): a controller type other than key_node, fact_check and
\* early_warning, configured or constructed, ends construction in an error,
\* and no controller of such a type exists in a running state.
C15_UnknownTypeFatal ==
  /\ (countermeasure_flags \ CmTypes # {}) => status = "error"
  /\ status = "ok" => constructed \subseteq CmTypes

\* C16: a user record without identity yields no node and no agent, every
\* record with an identity yields its node and its agent, in the order of
\* the records, and construction succeeds.
C16_RecordWithoutIdentitySkipped ==
  LET users == preprocessed_data.users
      named == SelectSeq([i \in DOMAIN users |-> users[i].user_id],
                         LAMBDA id : id # NoId)
  IN /\ status = "ok"
     /\ NoId \notin G.nodes
     /\ G.nodes = Range(named)
     /\ user_agents = named
     /\ \A e \in G.edges : e[1] \in G.nodes /\ e[2] \in G.nodes

\* an input whose first record has no identity and whose second has one, and
\* the engine has run a tick on it
C16_Witness ==
  /\ Len(preprocessed_data.users) = 2
  /\ preprocessed_data.users[1].user_id = NoId
  /\ preprocessed_data.users[2].user_id # NoId
  /\ user_agents = <<preprocessed_data.users[2].user_id>>
  /\ num_steps > 0

\* C21: over the whole run the records are dispatched in non-decreasing
\* order of their scheduled tick, and a record is never dispatched in a tick
\* smaller than its scheduled tick.
C21_DispatchInTickOrder ==
  /\ \A i, j \in DOMAIN dispatch_log :
       i < j => dispatch_log[i].step <= dispatch_log[j].step
  /\ \A i \in DOMAIN dispatch_log : dispatch_log[i].step <= dispatch_log[i].at

\* two records were dispatched in tick 0 and a third, scheduled for tick 1,
\* in tick 1
C21_Witness ==
  /\ Len(dispatch_log) = 3
  /\ dispatch_log[1].at = 0
  /\ dispatch_log[2].at = 0
  /\ dispatch_log[3].at = 1
  /\ dispatch_log[3].step = 1

\* C22: a countermeasure delivery for an id adds the id to the user's
\* received_countermeasures whatever the user's sets hold and leaves its
\* received_misinfo unchanged; a misinformation delivery leaves its
\* received_countermeasures unchanged; no delivery changes a set of another
\* user.
C22_DeliveryFrame ==
  [][\A u \in Users :
       /\ (lastOp'.op = "countermeasure" /\ lastOp'.who = u) =>
            /\ received_countermeasures'[u] =
                 received_countermeasures[u] \cup {lastOp'.mid}
            /\ received_misinfo'[u] = received_misinfo[u]
       /\ (lastOp'.op = "misinfo" /\ lastOp'.who = u) =>
            received_countermeasures'[u] = received_countermeasures[u]
       /\ (lastOp'.op \in {"countermeasure", "misinfo"} /\ lastOp'.who # u) =>
            /\ received_misinfo'[u] = received_misinfo[u]
            /\ retweeted_misinfo'[u] = retweeted_misinfo[u]
            /\ received_countermeasures'[u] = received_countermeasures[u]]_vars

\* a countermeasure was delivered for an item the user never received, while
\* the other user holds a shared item
C22_Witness ==
  /\ lastOp.op = "countermeasure"
  /\ lastOp.mid \in received_countermeasures[lastOp.who]
  /\ lastOp.mid \notin received_misinfo[lastOp.who]
  /\ \E v \in Users \ {lastOp.who} : retweeted_misinfo[v] # {}

\* C23: a misinformation delivery of an id to a user whose shared set holds
\* the id leaves the user's three sets unchanged, draws no random number and
\* sends no share notification.
C23_RedeliveryToSharerIdempotent ==
  [][\A u \in Users, m \in Mids :
       (/\ lastOp'.op = "misinfo" /\ lastOp'.who = u /\ lastOp'.mid = m
        /\ m \in retweeted_misinfo[u]) =>
         /\ received_misinfo'[u] = received_misinfo[u]
         /\ retweeted_misinfo'[u] = retweeted_misinfo[u]
         /\ received_countermeasures'[u] = received_countermeasures[u]
         /\ draws' = 0
         /\ share_notes' = share_notes
         /\ misinfo_stats' = misinfo_stats]_vars

\* an item was delivered again to a user that had shared it with a draw, and
\* the second delivery drew nothing
C23_Witness ==
  /\ lastOp.op = "misinfo"
  /\ lastOp.mid \in retweeted_misinfo[lastOp.who]
  /\ share_notes[lastOp.who][lastOp.mid] = 1
  /\ draws = 0

====
